---- MODULE Spec2Model ----
(***************************************************************************)
(* A model of src/block/memory_region.cc (MLDB): frozen and mutable memory *)
(* regions, the heap serializer, the file mapper, and the structured       *)
(* serializer / reconstituter built on top of them.                        *)
(*                                                                         *)
(* The module holds five state machines over disjoint groups of variables: *)
(*   Spec        regions on the heap serializer (allocate, write, freeze,  *)
(*               range)                                                    *)
(*   SpecMap     mapFile, step by step, and the lifetime of its handle     *)
(*   SpecPath    the recursive path resolution of StructuredReconstituter  *)
(*   SpecObj     newObject / getObjectHelper                               *)
(*   SpecStream  the seekable stream over a region                         *)
(***************************************************************************)
EXTENDS Integers, Sequences, FiniteSets, Bags, TLC

VARIABLES
    \* ---- Spec: the heap serializer and its regions
    heap,        \* handle -> the bytes of the allocation it owns
    mutables,    \* the MutableMemoryRegion objects alive
    frozens,     \* the FrozenMemoryRegion objects alive
    last,        \* the last call: its arguments, outcome and the heap before it
    \* ---- SpecMap: one call of mapFile and the regions that come of it
    mpc,         \* where the call stands
    marg,        \* its arguments, and the size of the file named
    mloc,        \* its locals: fd, length, mapOffset, mapLength, addr
    os,          \* the process's open descriptors and mapped bytes, with call counts
    useCount,    \* the use count of the shared_ptr control block made by the call
    released,    \* how many times the control block's deleter ran
    mregions,    \* the bag of FrozenMemoryRegion objects alive that came of the call
    \* ---- SpecPath: path resolution on a reconstituter tree
    ptree,       \* the archive: its structure entries and its region entries
    pcall,       \* the call made on the root node, and what came of it
    \* ---- SpecObj: one serializer node and the reconstituter node that reads it
    sentries,    \* the child entries of the node: name -> the bytes frozen into it
    written,     \* name -> the value last passed to newObject under that name
    ocall,       \* the last call on the node, and what came of it
    \* ---- SpecStream: the stream getStream returns
    strm,        \* the ReconstituteStreamHandler: region length, get pointer - start
    scall        \* the last seek, and what it returned

regionVars == <<heap, mutables, frozens, last>>
mapVars == <<mpc, marg, mloc, os, useCount, released, mregions>>

pathVars == <<ptree, pcall>>

objVars == <<sentries, written, ocall>>
streamVars == <<strm, scall>>

vars == <<regionVars, mapVars, pathVars, objVars, streamVars>>

\* What each machine leaves alone: the variables of the others.
notRegion == <<mapVars, pathVars, objVars, streamVars>>
notMap == <<regionVars, pathVars, objVars, streamVars>>
notPath == <<regionVars, mapVars, objVars, streamVars>>
notObj == <<regionVars, mapVars, pathVars, streamVars>>
notStream == <<regionVars, mapVars, pathVars, objVars>>

(***************************************************************************)
(* Bounds                                                                  *)
(***************************************************************************)
MaxLen == 2         \* bytes of one allocation
MaxByte == 1        \* byte values are 0..MaxByte
MaxFrozen == 2      \* FrozenMemoryRegion objects alive at once

Byte == 0..MaxByte

RECURSIVE SeqsUpTo(_, _)
SeqsUpTo(S, n) ==
    IF n = 0 THEN {<<>>}
    ELSE LET shorter == SeqsUpTo(S, n - 1)
         IN  shorter \cup {Append(s, x) : s \in {t \in shorter : Len(t) = n - 1}, x \in S}

SeqsOfLen(S, n) == {s \in SeqsUpTo(S, n) : Len(s) = n}

(***************************************************************************)
(* Regions.  A pointer is modelled as (handle, offset into the allocation  *)
(* the handle owns); `data` is that offset.                                *)
(***************************************************************************)
NoRegion == [handle |-> 0, data |-> 0, length |-> 0]

\* FrozenMemoryRegion::FrozenMemoryRegion(handle, data, length)
FrozenMemoryRegion(handle, data, length) ==
    [handle |-> handle, data |-> data, length |-> length]

\* MutableMemoryRegion::MutableMemoryRegion(handle, data, length, owner);
\* the only owner of this file is the MemorySerializer.
MutableMemoryRegion(handle, data, length) ==
    [handle |-> handle, data |-> data, length |-> length]

\* The bytes a region views in memory `mem`.
BytesIn(mem, r) == [i \in 1..r.length |-> mem[r.handle][r.data + i]]

Thrown == [ok |-> FALSE, region |-> NoRegion]
Returned(r) == [ok |-> TRUE, region |-> r]

\* A range that forgets the upper bound check.
range_noUpperCheck(r, start, end) ==
    IF ~(end >= start) THEN Thrown
    ELSE Returned(FrozenMemoryRegion(r.handle, r.data + start, end - start))

\* A range that forgets to advance the data pointer by `start`.
range_wrongBase(r, start, end) ==
    IF ~(end >= start) THEN Thrown
    ELSE IF ~(end <= r.length) THEN Thrown
    ELSE Returned(FrozenMemoryRegion(r.handle, r.data, end - start))

\* A range whose result does not hold the handle.
range_noHandle(r, start, end) ==
    IF ~(end >= start) THEN Thrown
    ELSE IF ~(end <= r.length) THEN Thrown
    ELSE Returned(FrozenMemoryRegion(0, r.data + start, end - start))

\* FrozenMemoryRegion::range(start, end)
range(r, start, end) ==
    IF ~(end >= start) THEN Thrown                \* ExcAssertGreaterEqual(end, start)
    ELSE IF ~(end <= r.length) THEN Thrown        \* ExcAssertLessEqual(end, length())
    ELSE Returned(FrozenMemoryRegion(r.handle, r.data + start, end - start))

\* MemorySerializer::freeze(region): same handle, pointer and length.
freeze(m) == FrozenMemoryRegion(m.handle, m.data, m.length)

(***************************************************************************)
(* Spec: the heap serializer                                               *)
(***************************************************************************)
\* What `last` keeps of a call.  Only range() is looked at afterwards, so the
\* other calls leave their name alone.
Call(op, src, start, end, ok, result) ==
    [op |-> op, src |-> src, start |-> start, end |-> end, ok |-> ok,
     result |-> result, heapBefore |-> heap, frozensBefore |-> frozens]

Did(op) ==
    [op |-> op, src |-> NoRegion, start |-> 0, end |-> 0, ok |-> TRUE,
     result |-> NoRegion, heapBefore |-> <<>>, frozensBefore |-> {}]

InitRegion ==
    /\ heap = <<>>
    /\ mutables = {}
    /\ frozens = {}
    /\ last = Did("none")

\* MemorySerializer::allocateWritable(bytesRequired, alignment): posix_memalign
\* succeeds; the new memory is uninitialised, so its content is arbitrary.
\* Allocations are independent of each other (each has its own handle): the
\* machine follows the first one.
AllocateWritable(n, content) ==
    /\ heap = <<>>
    /\ Len(content) = n
    /\ LET h == Len(heap) + 1
           m == MutableMemoryRegion(h, 0, n)
       IN  /\ heap' = Append(heap, content)
           /\ mutables' = mutables \cup {m}
           /\ last' = Did("allocateWritable")
    /\ UNCHANGED frozens

\* MemorySerializer::allocateWritable: posix_memalign returns non-zero, the call
\* throws and nothing is allocated.
AllocateFails(n) ==
    /\ last' = Did("allocateWritable throws")
    /\ UNCHANGED <<heap, mutables, frozens>>

\* The caller stores byte b at m.data()[i].  data() hands out the same char *
\* before and after freeze(): nothing in the region records that it was frozen.
Write(m, i, b) ==
    /\ i < m.length
    /\ heap' = [heap EXCEPT ![m.handle][m.data + i + 1] = b]
    /\ last' = Did("write")
    /\ UNCHANGED <<mutables, frozens>>

\* MutableMemoryRegion::freeze(): itl->owner->freeze(*this).  The mutable region
\* is left as it was.
Freeze(m) ==
    /\ Cardinality(frozens) < MaxFrozen \/ freeze(m) \in frozens
    /\ frozens' = frozens \cup {freeze(m)}
    /\ last' = Call("freeze", m, 0, m.length, TRUE, freeze(m))
    /\ UNCHANGED <<heap, mutables>>

\* r.range(start, end) on a live frozen region.
Range(r, start, end) ==
    LET res == range(r, start, end)
    IN  /\ res.ok => (Cardinality(frozens) < MaxFrozen \/ res.region \in frozens)
        /\ frozens' = IF res.ok THEN frozens \cup {res.region} ELSE frozens
        /\ last' = Call("range", r, start, end, res.ok, res.region)
        /\ UNCHANGED <<heap, mutables>>

NextRegion ==
    \/ \E n \in 0..MaxLen : \E content \in SeqsOfLen(Byte, n) :
           AllocateWritable(n, content) /\ UNCHANGED notRegion
    \/ \E n \in 0..MaxLen : AllocateFails(n) /\ UNCHANGED notRegion
    \/ \E m \in mutables : \E i \in 0..(MaxLen - 1) : \E b \in Byte :
           Write(m, i, b) /\ UNCHANGED notRegion
    \/ \E m \in mutables : Freeze(m) /\ UNCHANGED notRegion
    \/ \E r \in frozens : \E start \in 0..(MaxLen + 1) : \E end \in 0..(MaxLen + 1) :
           Range(r, start, end) /\ UNCHANGED notRegion

(***************************************************************************)
(* SpecMap: mapFile(filename, startOffset, length)                         *)
(*                                                                         *)
(* Addresses of the mapping are offsets from its base, so a region of the  *)
(* mapping has data = (its pointer - base), and MAP_FAILED is -1.          *)
(***************************************************************************)
PageBits == 1       \* page_size is 2^PageBits
SizeBits == 5       \* size_t has SizeBits bits
MaxOffset == 3      \* startOffset is 0..MaxOffset
MaxReq == 2         \* an explicit length is 0..MaxReq
MaxFile == 3        \* the file has 0..MaxFile bytes
MaxRegions == 2     \* regions alive at once on one handle

page_size == 2 ^ PageBits
SizeMax == 2 ^ SizeBits
MAP_FAILED == 0 - 1
TheFd == 3
TheHandle == 1

\* Conversion to size_t.
SizeT(x) == x % SizeMax

RECURSIVE BitAnd(_, _, _)
BitAnd(x, y, n) ==
    IF n = 0 THEN 0
    ELSE (IF x % 2 = 1 /\ y % 2 = 1 THEN 1 ELSE 0) + 2 * BitAnd(x \div 2, y \div 2, n - 1)

\* x & ~(page_size - 1) on size_t
MaskPage(x) == BitAnd(x, (SizeMax - 1) - (page_size - 1), SizeBits)

\* size_t mapOffset = startOffset & ~(page_size - 1);
mapOffsetOf(startOffset) == MaskPage(SizeT(startOffset))

\* size_t mapLength = (length - mapOffset + page_size - 1) & ~(page_size - 1);
mapLengthOf(length, mapOffset) == MaskPage(SizeT(length - mapOffset + page_size - 1))

\* mmap(nullptr, mapLength, ...) cannot succeed with a zero length (EINVAL) nor
\* with one that no address space holds (ENOMEM); else it may succeed or fail.
MmapCanSucceed(mapLength) == mapLength > 0 /\ mapLength < SizeMax \div 2

\* munmap(p, n): every page with a byte in [p, p + n) is unmapped; p = MAP_FAILED
\* is no page address and unmaps nothing (EINVAL).
munmap(sys, p, n) ==
    IF p = MAP_FAILED THEN [sys EXCEPT !.munmaps = @ + 1]
    ELSE [sys EXCEPT !.munmaps = @ + 1,
                     !.mapped = {b \in @ : ~(\E c \in p..(p + n - 1) :
                                               b \div page_size = c \div page_size)}]

\* close(fd)
close(sys, fd) ==
    [sys EXCEPT !.closes = @ + 1, !.fds = @ \ {fd}]

\* A deleter that forgets the descriptor.
deleter_noClose(sys, loc) == munmap(sys, loc.addr, loc.mapLength)

\* [=] (void * p) { munmap(p, mapLength); close(fd); }
deleter(sys, loc) == close(munmap(sys, loc.addr, loc.mapLength), loc.fd)

\* os.opens counts the descriptors open() returned, os.closes the close() calls,
\* os.mmaps and os.munmaps the mmap() and munmap() calls.
NoLocals == [fd |-> 0 - 1, length |-> 0, mapOffset |-> 0, mapLength |-> 0, addr |-> MAP_FAILED]

InitMap ==
    /\ mpc = "idle"
    /\ marg = [scheme |-> "", startOffset |-> 0, length |-> 0, fileSize |-> 0]
    /\ mloc = NoLocals
    /\ os = [fds |-> {}, mapped |-> {}, opens |-> 0, closes |-> 0, mmaps |-> 0, munmaps |-> 0]
    /\ useCount = 0
    /\ released = 0
    /\ mregions = EmptyBag

\* The call, up to the scheme test of lines 143-146.
MapFileCall(scheme, startOffset, length, fileSize) ==
    /\ mpc = "idle"
    /\ marg' = [scheme |-> scheme, startOffset |-> startOffset, length |-> length,
                fileSize |-> fileSize]
    /\ mloc' = [NoLocals EXCEPT !.length = length]
    /\ mpc' = IF scheme # "file" THEN "failed: scheme" ELSE "open"
    /\ UNCHANGED <<os, useCount, released, mregions>>

\* int fd = open(path, O_RDONLY), lines 149-154.
MapFileOpen(ok) ==
    /\ mpc = "open"
    /\ IF ok
       THEN /\ os' = [os EXCEPT !.opens = @ + 1, !.fds = @ \cup {TheFd}]
            /\ mloc' = [mloc EXCEPT !.fd = TheFd]
            /\ mpc' = IF mloc.length = 0 - 1 THEN "stat" ELSE "map"
       ELSE /\ os' = os
            /\ mloc' = mloc
            /\ mpc' = "failed: open"
    /\ UNCHANGED <<marg, useCount, released, mregions>>

\* if (length == -1) { fstat(fd, &buf) ... } fails: close(fd) and throw, lines 159-164.
MapFileFstatFails ==
    /\ mpc = "stat"
    /\ os' = close(os, mloc.fd)
    /\ mpc' = "failed: fstat"
    /\ UNCHANGED <<marg, mloc, useCount, released, mregions>>

\* fstat succeeds: length = buf.st_size, line 165.
MapFileFstat ==
    /\ mpc = "stat"
    /\ mloc' = [mloc EXCEPT !.length = marg.fileSize]
    /\ mpc' = "map"
    /\ UNCHANGED <<marg, os, useCount, released, mregions>>

\* Lines 170-179: the arithmetic, mmap, and the shared_ptr that takes its result
\* with the deleter.  ctrlOk = FALSE: the control block cannot be allocated; the
\* constructor then calls the deleter on the pointer and throws std::bad_alloc.
MapFileMmap(mmapOk, ctrlOk) ==
    /\ mpc = "map"
    /\ mmapOk => MmapCanSucceed(mapLengthOf(mloc.length, mapOffsetOf(marg.startOffset)))
    /\ LET mo == mapOffsetOf(marg.startOffset)
           ml == mapLengthOf(mloc.length, mo)
           loc == [mloc EXCEPT !.mapOffset = mo, !.mapLength = ml,
                               !.addr = IF mmapOk THEN 0 ELSE MAP_FAILED]
           sys == [os EXCEPT !.mmaps = @ + 1,
                             !.mapped = IF mmapOk THEN 0..(ml - 1) ELSE @]
       IN  /\ mloc' = loc
           /\ IF ctrlOk
              THEN /\ os' = sys
                   /\ useCount' = 1
                   /\ released' = released
                   /\ mpc' = "check"
              ELSE /\ os' = deleter(sys, loc)
                   /\ useCount' = 0
                   /\ released' = released + 1
                   /\ mpc' = "failed: bad_alloc"
    /\ UNCHANGED <<marg, mregions>>

\* if (addr.get() == MAP_FAILED) throw ..., lines 181-185: unwinding destroys
\* addr, the only owner, so the deleter runs.
MapFileMapFailed ==
    /\ mpc = "check"
    /\ mloc.addr = MAP_FAILED
    /\ useCount' = useCount - 1
    /\ os' = deleter(os, mloc)
    /\ released' = released + 1
    /\ mpc' = "failed: mmap"
    /\ UNCHANGED <<marg, mloc, mregions>>

\* start = addr.get() + (startOffset % page_size);
\* FrozenMemoryRegion(std::move(addr), start, length)
MapFileRegion ==
    FrozenMemoryRegion(TheHandle, mloc.addr + (marg.startOffset % page_size),
                       SizeT(mloc.length))

\* Lines 187-193: the region returned; addr is moved into it.
MapFileReturn ==
    /\ mpc = "check"
    /\ mloc.addr # MAP_FAILED
    /\ mregions' = SetToBag({MapFileRegion})
    /\ mpc' = "done"
    /\ UNCHANGED <<marg, mloc, os, useCount, released>>

\* r.range(start, end) on a region alive: the result holds a copy of handle_.
MapRange(r, start, end) ==
    /\ mpc = "done"
    /\ BagIn(r, mregions)
    /\ BagCardinality(mregions) < MaxRegions
    /\ LET res == range(r, start, end)
       IN  /\ mregions' = IF res.ok THEN mregions (+) SetToBag({res.region}) ELSE mregions
           /\ useCount' = IF res.ok /\ res.region.handle = TheHandle
                          THEN useCount + 1 ELSE useCount
    /\ UNCHANGED <<mpc, marg, mloc, os, released>>

\* A region alive is destroyed: its copy of the handle goes, and the last copy
\* to go runs the deleter.
MapDrop(r) ==
    /\ mpc = "done"
    /\ BagIn(r, mregions)
    /\ mregions' = mregions (-) SetToBag({r})
    /\ IF r.handle = TheHandle
       THEN /\ useCount' = useCount - 1
            /\ IF useCount = 1
               THEN os' = deleter(os, mloc) /\ released' = released + 1
               ELSE os' = os /\ released' = released
       ELSE UNCHANGED <<useCount, os, released>>
    /\ UNCHANGED <<mpc, marg, mloc>>

NextMap ==
    \/ \E scheme \in {"file", "http"} : \E startOffset \in 0..MaxOffset :
       \E length \in (0 - 1)..MaxReq : \E fileSize \in 0..MaxFile :
           MapFileCall(scheme, startOffset, length, fileSize) /\ UNCHANGED notMap
    \/ \E ok \in BOOLEAN : MapFileOpen(ok) /\ UNCHANGED notMap
    \/ MapFileFstatFails /\ UNCHANGED notMap
    \/ MapFileFstat /\ UNCHANGED notMap
    \/ \E mmapOk \in BOOLEAN : \E ctrlOk \in BOOLEAN :
           MapFileMmap(mmapOk, ctrlOk) /\ UNCHANGED notMap
    \/ MapFileMapFailed /\ UNCHANGED notMap
    \/ MapFileReturn /\ UNCHANGED notMap
    \/ \E r \in BagToSet(mregions) : \E start \in 0..(r.length + 1) :
       \E end \in 0..(r.length + 1) : MapRange(r, start, end) /\ UNCHANGED notMap
    \/ \E r \in BagToSet(mregions) : MapDrop(r) /\ UNCHANGED notMap

(***************************************************************************)
(* SpecPath: StructuredReconstituter's recursive path resolution           *)
(*                                                                         *)
(* getRegion and getStructure are pure virtual: the backend here is an     *)
(* archive that is a tree of named entries.  A node is the path from the   *)
(* root to it; the bytes of a region entry are the path of the entry, so   *)
(* that a result tells which entry was read.                               *)
(***************************************************************************)
MaxPath == 3        \* segments of a path, and depth of the archive

Names == {"a", "b"}

PathsUpTo(n) == SeqsUpTo(Names, n)

Failed == [ok |-> FALSE, value |-> <<"thrown">>]
Result(v) == [ok |-> TRUE, value |-> v]
NullNode == <<"null">>

\* Path::head(), Path::tail()
head(name) == Head(name)
tail(name) == Tail(name)

\* Backend: getRegion(name) on `node`: the region of that entry, or an error.
getRegion(tree, node, name) ==
    IF Append(node, name) \in tree.regions THEN Result(Append(node, name)) ELSE Failed

\* Backend: getStructure(name) on `node`: the child node, or an error.
getStructure(tree, node, name) ==
    IF Append(node, name) \in tree.structs THEN Result(Append(node, name)) ELSE Failed

\* A getRegionRecursive that recurses on the tail without descending.
RECURSIVE getRegionRecursive_noDescent(_, _, _)
getRegionRecursive_noDescent(tree, node, name) ==
    IF name = <<>> THEN Failed
    ELSE IF Len(name) = 1 THEN getRegion(tree, node, head(name))
    ELSE getRegionRecursive_noDescent(tree, node, tail(name))

\* StructuredReconstituter::getRegionRecursive(name)
RECURSIVE getRegionRecursive(_, _, _)
getRegionRecursive(tree, node, name) ==
    IF name = <<>> THEN Failed                            \* ExcAssert(!name.empty())
    ELSE IF Len(name) = 1 THEN getRegion(tree, node, head(name))
    ELSE LET child == getStructure(tree, node, head(name))
         IN  IF ~child.ok THEN Failed
             ELSE getRegionRecursive(tree, child.value, tail(name))

\* StructuredReconstituter::getStream(name): a stream on the region of the entry,
\* its read position at the start.
getStream(tree, node, name) ==
    LET region == getRegion(tree, node, name)
    IN  IF ~region.ok THEN Failed ELSE Result(<<"stream at 0 of">> \o region.value)

\* StructuredReconstituter::getStreamRecursive(name)
RECURSIVE getStreamRecursive(_, _, _)
getStreamRecursive(tree, node, name) ==
    IF name = <<>> THEN Failed                            \* ExcAssert(!name.empty())
    ELSE IF Len(name) = 1 THEN getStream(tree, node, head(name))
    ELSE LET child == getStructure(tree, node, head(name))
         IN  IF ~child.ok THEN Failed
             ELSE getStreamRecursive(tree, child.value, tail(name))

\* The loop of getStructureRecursive from element i on:
\*   for (auto el: name) { result = current->getStructure(el); current = result.get(); }
RECURSIVE StructureLoop(_, _, _, _, _)
StructureLoop(tree, result, current, name, i) ==
    IF i > Len(name) THEN Result(result)
    ELSE LET child == getStructure(tree, current, name[i])
         IN  IF ~child.ok THEN Failed
             ELSE StructureLoop(tree, child.value, child.value, name, i + 1)

\* StructuredReconstituter::getStructureRecursive(name): result starts as a null
\* shared_ptr and current as this.
getStructureRecursive(tree, node, name) == StructureLoop(tree, NullNode, node, name, 1)

\* The archives: the structure entries are closed under prefix, the region
\* entries are the children of structure entries, but for those named `hole`.
IsPrefixClosed(S) == \A q \in S : q = <<>> \/ SubSeq(q, 1, Len(q) - 1) \in S

Archive(S, hole) ==
    [structs |-> S,
     regions |-> {q \in PathsUpTo(MaxPath) :
                     /\ q # <<>>
                     /\ SubSeq(q, 1, Len(q) - 1) \in S
                     /\ q[Len(q)] # hole}]

Archives ==
    {Archive(S \cup {<<>>}, hole) :
        S \in {T \in SUBSET (PathsUpTo(MaxPath - 1) \ {<<>>}) : IsPrefixClosed(T \cup {<<>>})},
        hole \in Names \cup {"none"}}

NoCall == [op |-> "none", path |-> <<>>, ok |-> TRUE, value |-> <<>>]

QuietPath ==
    /\ ptree = Archive({<<>>}, "none")
    /\ pcall = NoCall

InitPath ==
    /\ ptree \in Archives
    /\ pcall = NoCall

Called(op, path, res) == [op |-> op, path |-> path, ok |-> res.ok, value |-> res.value]

\* The three calls are const: each is made once, on the root of the archive.
GetRegionRecursive(path) ==
    /\ pcall = NoCall
    /\ pcall' = Called("getRegionRecursive", path, getRegionRecursive(ptree, <<>>, path))
    /\ UNCHANGED ptree

GetStreamRecursive(path) ==
    /\ pcall = NoCall
    /\ pcall' = Called("getStreamRecursive", path, getStreamRecursive(ptree, <<>>, path))
    /\ UNCHANGED ptree

GetStructureRecursive(path) ==
    /\ pcall = NoCall
    /\ pcall' = Called("getStructureRecursive", path,
                       getStructureRecursive(ptree, <<>>, path))
    /\ UNCHANGED ptree

NextPath ==
    \/ \E path \in PathsUpTo(MaxPath) : GetRegionRecursive(path) /\ UNCHANGED notPath
    \/ \E path \in PathsUpTo(MaxPath) : GetStreamRecursive(path) /\ UNCHANGED notPath
    \/ \E path \in PathsUpTo(MaxPath) : GetStructureRecursive(path) /\ UNCHANGED notPath

(***************************************************************************)
(* SpecStream: ReconstituteStreamHandler, the streambuf of getStream       *)
(*                                                                         *)
(* The get area is (eback, gptr, egptr) = (start, start + cursor, end);    *)
(* the machine keeps cursor = gptr - start and length = end - start.       *)
(***************************************************************************)
MaxStreamLen == 2   \* bytes of the region under the stream
MaxSeek == 3        \* a seek offset is -MaxSeek..MaxSeek

SeekDirs == {"beg", "cur", "end"}

\* ReconstituteStreamHandler(region): setg(start, start, end)
ReconstituteStreamHandler(length) == [open |-> TRUE, length |-> length, cursor |-> 0]

\* seekoff(off, dir, which): the stream after the call and the position returned.
\* No target is compared with start or end.  A get pointer moved out of the
\* region is plain address arithmetic in every build, so the cursor is the sum.
seekoff(s, off, dir) ==
    LET cursor == CASE dir = "cur" -> s.cursor + off          \* gbump(off)
                    [] dir = "end" -> s.length + off          \* setg(start, end + off, end)
                    [] dir = "beg" -> off                     \* setg(start, start + off, end)
    IN  IF dir \notin SeekDirs
        THEN [ok |-> FALSE, stream |-> s, pos |-> 0 - 1]      \* throw Exception(...)
        ELSE [ok |-> TRUE, stream |-> [s EXCEPT !.cursor = cursor],
              pos |-> cursor]                                 \* return gptr() - eback()

\* seekpos(pos, mode): seekoff(pos - pos_type(off_type(0)), beg, mode)
seekpos(s, pos) == seekoff(s, pos - 0, "beg")

NoSeek == [op |-> "none", off |-> 0, dir |-> "beg", target |-> 0, ok |-> TRUE, pos |-> 0]

InitStream ==
    /\ strm = [open |-> FALSE, length |-> 0, cursor |-> 0]
    /\ scall = NoSeek

\* The target position a seek asks for.
SeekTarget(s, off, dir) ==
    CASE dir = "cur" -> s.cursor + off
      [] dir = "end" -> s.length + off
      [] dir = "beg" -> off
      [] OTHER -> 0

\* StructuredReconstituter::getStream(name) over a region of `length` bytes.
GetStream(length) ==
    /\ ~strm.open
    /\ strm' = ReconstituteStreamHandler(length)
    /\ scall' = NoSeek

\* A seekoff call on the stream.  The window on the target only keeps the
\* cursor of the machine bounded.
Seekoff(off, dir) ==
    /\ strm.open
    /\ SeekTarget(strm, off, dir) \in (0 - 2 * MaxSeek)..(MaxStreamLen + 2 * MaxSeek)
    /\ LET res == seekoff(strm, off, dir)
       IN  /\ strm' = res.stream
           /\ scall' = [op |-> "seekoff", off |-> off, dir |-> dir,
                        target |-> SeekTarget(strm, off, dir), ok |-> res.ok,
                        pos |-> res.pos]

\* A seekpos call on the stream.
Seekpos(pos) ==
    /\ strm.open
    /\ LET res == seekpos(strm, pos)
       IN  /\ strm' = res.stream
           /\ scall' = [op |-> "seekpos", off |-> pos, dir |-> "beg",
                        target |-> pos, ok |-> res.ok, pos |-> res.pos]

\* sbumpc(): with gptr < egptr and gptr inside the region the byte is read and
\* gptr advances; with gptr >= egptr the streambuf's own underflow() returns eof.
Read ==
    /\ strm.open
    /\ strm.cursor >= 0
    /\ strm' = IF strm.cursor < strm.length THEN [strm EXCEPT !.cursor = @ + 1] ELSE strm
    /\ scall' = [NoSeek EXCEPT !.op = "read"]

NextStream ==
    \/ \E length \in 0..MaxStreamLen : GetStream(length) /\ UNCHANGED notStream
    \/ \E off \in (0 - MaxSeek)..MaxSeek : \E dir \in SeekDirs \cup {"invalid"} :
           Seekoff(off, dir) /\ UNCHANGED notStream
    \/ \E pos \in (0 - MaxSeek)..(MaxStreamLen + MaxSeek) : Seekpos(pos) /\ UNCHANGED notStream
    \/ Read /\ UNCHANGED notStream

(***************************************************************************)
(* SpecObj: StructuredSerializer::newObject and                            *)
(* StructuredReconstituter::getObjectHelper on one node                    *)
(*                                                                         *)
(* newEntry and getRegion are pure virtual: the backend here keeps one     *)
(* frozen region of bytes per entry name, refuses a name that is taken,    *)
(* and the reconstituter node reads the entries the serializer node wrote. *)
(* The value description prints and parses integers as JSON numbers.       *)
(***************************************************************************)
MaxVal == 11        \* the values are -MaxVal..MaxVal

Values == (0 - MaxVal)..MaxVal
EntryNames == {"md", "a"}
DigitChars == <<"0", "1", "2", "3", "4", "5", "6", "7", "8", "9">>
\* The regions addRegion is given.
SomeRegions == {<<"7">>, <<"x">>}

\* desc.printJson(val, context) for an integer: its decimal digits.
RECURSIVE printDigits(_)
printDigits(n) ==
    IF n < 10 THEN <<DigitChars[n + 1]>>
    ELSE printDigits(n \div 10) \o <<DigitChars[(n % 10) + 1]>>

printJson(val) == IF val < 0 THEN <<"-">> \o printDigits(0 - val) ELSE printDigits(val)

DigitValue(c) == (CHOOSE d \in 1..10 : DigitChars[d] = c) - 1
IsDigit(c) == \E d \in 1..10 : DigitChars[d] = c

RECURSIVE parseDigits(_, _)
parseDigits(text, acc) ==
    IF text = <<>> THEN acc
    ELSE parseDigits(Tail(text), 10 * acc + DigitValue(Head(text)))

\* desc->parseJson(obj, context) for an integer: the number read, or a parse error.
parseJson(text) ==
    LET negative == text # <<>> /\ Head(text) = "-"
        digits == IF negative THEN Tail(text) ELSE text
    IN  IF digits = <<>> \/ \E i \in 1..Len(digits) : ~IsDigit(digits[i])
        THEN [ok |-> FALSE, value |-> 0]
        ELSE [ok |-> TRUE,
              value |-> IF negative THEN 0 - parseDigits(digits, 0)
                        ELSE parseDigits(digits, 0)]

\* Backend: newEntry(name) on the node; a name already taken is refused.
newEntry(entries, name) == name \notin DOMAIN entries

\* Backend: the entry `name` once `bytes` were frozen into it.
WithEntry(entries, name, bytes) ==
    [n \in DOMAIN entries \cup {name} |-> IF n = name THEN bytes ELSE entries[n]]

NoObjCall == [op |-> "none", name |-> "", ok |-> TRUE, value |-> 0]

InitObj ==
    /\ sentries = << >>
    /\ written = << >>
    /\ ocall = NoObjCall

\* StructuredSerializer::newObject(name, val, desc): the value is printed, the
\* entry "md" is made, and the printed bytes are copied into a region allocated
\* from it and frozen.  `name` is not used.
NewObject(name, val) ==
    LET printed == printJson(val)
        serializeTo == [i \in 1..Len(printed) |-> printed[i]]      \* memcpy
    IN  IF newEntry(sentries, "md")
        THEN /\ sentries' = WithEntry(sentries, "md", serializeTo)
             /\ written' = WithEntry(written, name, val)
             /\ ocall' = [op |-> "newObject", name |-> name, ok |-> TRUE, value |-> val]
        ELSE /\ ocall' = [op |-> "newObject", name |-> name, ok |-> FALSE, value |-> val]
             /\ UNCHANGED <<sentries, written>>

\* StructuredSerializer::addRegion(region, name): newEntry(name)->copy(region)
AddRegion(bytes, name) ==
    IF newEntry(sentries, name)
    THEN /\ sentries' = WithEntry(sentries, name, bytes)
         /\ ocall' = [op |-> "addRegion", name |-> name, ok |-> TRUE, value |-> 0]
         /\ UNCHANGED written
    ELSE /\ ocall' = [op |-> "addRegion", name |-> name, ok |-> FALSE, value |-> 0]
         /\ UNCHANGED <<sentries, written>>

\* StructuredReconstituter::getObjectHelper(name, obj, desc): the region of the
\* entry `name` is parsed.
getObjectHelper(entries, name) ==
    IF name \notin DOMAIN entries THEN [ok |-> FALSE, value |-> 0]    \* getRegion throws
    ELSE parseJson(entries[name])

GetObjectHelper(name) ==
    /\ ocall' = [op |-> "getObjectHelper", name |-> name,
                 ok |-> getObjectHelper(sentries, name).ok,
                 value |-> getObjectHelper(sentries, name).value]
    /\ UNCHANGED <<sentries, written>>

NextObj ==
    \/ \E name \in EntryNames : \E val \in Values : NewObject(name, val) /\ UNCHANGED notObj
    \/ \E bytes \in SomeRegions : \E name \in EntryNames :
           AddRegion(bytes, name) /\ UNCHANGED notObj
    \/ \E name \in EntryNames : GetObjectHelper(name) /\ UNCHANGED notObj

(***************************************************************************)
(* The specifications                                                      *)
(***************************************************************************)
Init == InitRegion /\ InitMap /\ QuietPath /\ InitObj /\ InitStream
Spec == Init /\ [][NextRegion]_vars

SpecMap == Init /\ [][NextMap]_vars
\* SpecPath starts from any archive of the bounds.
InitArchives == InitRegion /\ InitMap /\ InitPath /\ InitObj /\ InitStream
SpecPath == InitArchives /\ [][NextPath]_vars
SpecObj == Init /\ [][NextObj]_vars
SpecStream == Init /\ [][NextStream]_vars

(***************************************************************************)
(* Claims on Spec                                                          *)
(***************************************************************************)
ValidRange(c) == c.start <= c.end /\ c.end <= c.src.length

\* C1: for start <= end <= r.length(), r.range(start, end) returns a region of
\* length end - start whose bytes are bytes [start, end) of r, on r's own handle
\* (nothing is allocated or copied), and r, its bytes and the heap are as before.
C1_RangeViewsSubrange ==
    (last.op = "range" /\ ValidRange(last)) =>
        /\ last.ok
        /\ last.result.length = last.end - last.start
        /\ BytesIn(heap, last.result)
               = SubSeq(BytesIn(last.heapBefore, last.src), last.start + 1, last.end)
        /\ last.result.handle = last.src.handle
        /\ last.result.data = last.src.data + last.start
        /\ heap = last.heapBefore
        /\ last.src \in frozens
        /\ frozens = last.frozensBefore \cup {last.result}

\* A range call with 0 < start < end that returned: a proper inner view.
C1_Witness ==
    /\ last.op = "range" /\ last.ok
    /\ 0 < last.start /\ last.start < last.end /\ last.end <= last.src.length
    /\ last.result # last.src

\* C2: with end < start or end > r.length() (start > r.length() included),
\* r.range(start, end) throws and no region comes into being.
C2_RangeOutOfBoundsFails ==
    (last.op = "range" /\ (last.end < last.start \/ last.end > last.src.length)) =>
        /\ ~last.ok
        /\ last.result = NoRegion
        /\ frozens = last.frozensBefore
        /\ heap = last.heapBefore

\* A failed range call whose start lies beyond the region and end >= start.
C2_Witness ==
    /\ last.op = "range" /\ ~last.ok
    /\ last.start > last.src.length /\ last.end >= last.start

\* C3: once a region is frozen its bytes never change again, whatever is done
\* with the mutable region afterwards.
C3_FrozenBytesNeverChange ==
    [][\A f \in frozens : BytesIn(heap', f) = BytesIn(heap, f)]_vars

(***************************************************************************)
(* Claims on SpecMap                                                       *)
(***************************************************************************)
\* C4: for a region returned by mapFile, the release action (munmap of the whole
\* mapping, close of the descriptor) has not run while a region sharing the
\* handle is alive, and has run exactly once when the last one is gone, whatever
\* the order of range() calls and drops.
C4_ReleaseOnceAfterLastDrop ==
    mpc = "done" =>
        /\ BagCardinality(mregions) > 0 =>
               /\ released = 0
               /\ os.mapped = 0..(mloc.mapLength - 1)
               /\ os.fds = {mloc.fd}
               /\ os.munmaps = 0 /\ os.closes = 0
        /\ BagCardinality(mregions) = 0 =>
               /\ released = 1
               /\ os.mapped = {}
               /\ os.fds = {}
               /\ os.munmaps = 1 /\ os.closes = 1

\* The region mapFile returned is gone, a region derived from it by range() is
\* alive, and the mapping is still there.
C4_Witness ==
    /\ mpc = "done"
    /\ BagCardinality(mregions) = 1
    /\ ~BagIn(MapFileRegion, mregions)
    /\ os.mapped # {}
    /\ released = 0

\* C5: for every startOffset and explicit length with [startOffset,
\* startOffset + length) inside the file, the region mapFile returns starts at
\* file byte startOffset, has the requested length, and all its bytes lie in the
\* mapping [mapOffset, mapOffset + mapLength) that mapFile made.
C5_RegionInsideMapping ==
    (/\ mpc = "done"
     /\ marg.length >= 0
     /\ marg.startOffset + marg.length <= marg.fileSize) =>
        /\ mloc.mapOffset + MapFileRegion.data = marg.startOffset
        /\ MapFileRegion.length = marg.length
        /\ \A i \in 0..(MapFileRegion.length - 1) :
               /\ MapFileRegion.data + i >= 0
               /\ MapFileRegion.data + i < mloc.mapLength

MapFileFailed ==
    mpc \in {"failed: scheme", "failed: open", "failed: fstat", "failed: mmap",
             "failed: bad_alloc"}

\* C10: when mapFile throws, no descriptor it opened is open and nothing it
\* mapped is mapped; a non-file scheme throws before open is called; and on
\* every failing path that opened the descriptor, close was called exactly once.
C10_NoPartialSuccess ==
    MapFileFailed =>
        /\ os.fds = {}
        /\ os.mapped = {}
        /\ mregions = EmptyBag
        /\ useCount = 0
        /\ mpc = "failed: scheme" => (os.opens = 0 /\ os.closes = 0 /\ os.mmaps = 0)
        /\ mpc = "failed: open" => (os.opens = 0 /\ os.closes = 0 /\ os.mmaps = 0)
        /\ mpc \in {"failed: fstat", "failed: mmap", "failed: bad_alloc"} =>
               (os.opens = 1 /\ os.closes = 1)

\* mmap failed after the descriptor was opened, and the descriptor is closed.
C10_Witness ==
    /\ mpc = "failed: mmap"
    /\ os.opens = 1 /\ os.closes = 1 /\ os.mmaps = 1
    /\ os.fds = {}

(***************************************************************************)
(* Claims on SpecPath                                                      *)
(***************************************************************************)
\* The node reached from `node` by getStructure on segments i..j of path, one
\* after the other, left to right.
RECURSIVE Descend(_, _, _, _, _)
Descend(tree, node, path, i, j) ==
    IF i > j THEN Result(node)
    ELSE LET child == getStructure(tree, node, path[i])
         IN  IF ~child.ok THEN Failed ELSE Descend(tree, child.value, path, i + 1, j)

\* getStructure(p1).getStructure(p2)...getStructure(p(n-1)).getRegion(pn)
Chained(tree, path) ==
    LET parent == Descend(tree, <<>>, path, 1, Len(path) - 1)
    IN  IF ~parent.ok THEN Failed ELSE getRegion(tree, parent.value, path[Len(path)])

NestedEntriesExist(tree, path) ==
    /\ path # <<>>
    /\ \A k \in 1..(Len(path) - 1) : SubSeq(path, 1, k) \in tree.structs
    /\ path \in tree.regions

\* C6: for a non-empty path whose nested entries exist, getRegionRecursive(path)
\* returns the region that getStructure(p1)...getStructure(p(n-1)).getRegion(pn)
\* returns, which is the region entry at that path.
C6_RecursiveEqualsChained ==
    (pcall.op = "getRegionRecursive" /\ NestedEntriesExist(ptree, pcall.path)) =>
        /\ pcall.ok
        /\ Chained(ptree, pcall.path).ok
        /\ pcall.value = Chained(ptree, pcall.path).value
        /\ pcall.value = pcall.path

\* A region three levels down, reached through two structures with different names.
C6_Witness ==
    /\ pcall.op = "getRegionRecursive"
    /\ Len(pcall.path) >= 3
    /\ pcall.path[1] # pcall.path[2]
    /\ NestedEntriesExist(ptree, pcall.path)
    /\ pcall.ok

\* C8: getRegionRecursive, getStreamRecursive and getStructureRecursive each fail
\* on the empty path; none returns a result for it.
C8_EmptyPathFails ==
    (pcall.op \in {"getRegionRecursive", "getStreamRecursive", "getStructureRecursive"}
        /\ pcall.path = <<>>) => ~pcall.ok

(***************************************************************************)
(* Claims on SpecObj                                                       *)
(***************************************************************************)
\* C7: a value written by newObject under name n is the value getObjectHelper(n)
\* reads back on the reconstituter node, for every name n and every value.
C7_RoundTrip ==
    (ocall.op = "getObjectHelper" /\ ocall.name \in DOMAIN written) =>
        (ocall.ok /\ ocall.value = written[ocall.name])

(***************************************************************************)
(* Claims on SpecStream                                                    *)
(***************************************************************************)
\* C9: on the stream over a region of length L, a seek (seekoff from the
\* beginning, the current position or the end, or seekpos) whose target is
\* outside [0, L] fails, and the read cursor is never outside [0, L].
C9_SeekStaysInRegion ==
    /\ strm.open => (strm.cursor >= 0 /\ strm.cursor <= strm.length)
    /\ (scall.op \in {"seekoff", "seekpos"}
          /\ (scall.target < 0 \/ scall.target > strm.length)) => ~scall.ok

====
